---- MODULE Spec2Model ----
(***************************************************************************)
(* A model of store/fsdir.go: the directory-backed blob store FSDir, its   *)
(* pid-in-a-file lock (".lock"), the identifier allocator seeded by a      *)
(* directory walk, and the Create/Load/LoadAll/Save/Delete/Close           *)
(* operations.  Every operation is split at its system calls, so that      *)
(* processes (and threads sharing a handle) interleave where the operating *)
(* system lets them.                                                       *)
(*                                                                         *)
(* File names, file contents and pids-as-text are sequences of one-letter  *)
(* strings, so strconv.Itoa / FormatInt / Atoi are computed, not assumed.  *)
(***************************************************************************)
EXTENDS Integers, Sequences, FiniteSets, TLC

(***************************************************************************)
(* Bounds of the model.                                                    *)
(***************************************************************************)
\* Create is not started once the handle's counter has reached MaxID.
MaxID == 3
\* Number of distinct random suffixes os.CreateTemp may draw.
MaxTmp == 2
\* Number of calls the threads of SpecConc start between them.
MaxCalls == 4

(***************************************************************************)
(* Threads and processes.  t1 and t2 are two threads of one process (they  *)
(* share that process's handle), t3 is another process.                    *)
(***************************************************************************)
Threads == {"t1", "t2", "t3"}

Pids == {3, 12}

\* os.Getpid() of the process a thread runs in
Getpid(t) == IF t = "t3" THEN 12 ELSE 3

(***************************************************************************)
(* strconv                                                                 *)
(***************************************************************************)
Digits == <<"0", "1", "2", "3", "4", "5", "6", "7", "8", "9">>

IsDigit(c) == \E d \in 1..10 : Digits[d] = c

DigitVal(c) == (CHOOSE d \in 1..10 : Digits[d] = c) - 1

RECURSIVE FormatNat(_)
FormatNat(n) ==
    IF n < 10 THEN <<Digits[n + 1]>>
    ELSE FormatNat(n \div 10) \o <<Digits[(n % 10) + 1]>>

\* strconv.FormatInt(int64(id), 10) and strconv.Itoa
FormatInt(n) == IF n < 0 THEN <<"-">> \o FormatNat(0 - n) ELSE FormatNat(n)

RECURSIVE ParseNat(_, _)
ParseNat(s, acc) ==
    IF s = <<>> THEN acc
    ELSE ParseNat(Tail(s), acc * 10 + DigitVal(Head(s)))

\* strconv.Atoi: an optional sign, then one or more decimal digits (leading
\* zeros allowed); anything else is a syntax error.
Atoi(s) ==
    LET signed == s # <<>> /\ Head(s) \in {"+", "-"}
        body   == IF signed THEN Tail(s) ELSE s
    IN  IF body = <<>> \/ \E i \in 1..Len(body) : ~IsDigit(body[i])
        THEN [ok |-> FALSE, val |-> 0]
        ELSE [ok |-> TRUE,
              val |-> IF signed /\ Head(s) = "-"
                      THEN 0 - ParseNat(body, 0) ELSE ParseNat(body, 0)]

Max(a, b) == IF a >= b THEN a ELSE b

(***************************************************************************)
(* Errors.  One record shape for all of them, so that any two compare.     *)
(***************************************************************************)
Err(kind, pid, id, name) == [kind |-> kind, pid |-> pid, id |-> id, name |-> name]

Nil == Err("nil", 0, 0, <<>>)

\* ErrDifferentOwner{pid}
ErrDifferentOwner(pid) == Err("ErrDifferentOwner", pid, 0, <<>>)

\* ErrNotFound{ID} and ErrCorruptedContent{Name}
ErrNotFound(id) == Err("ErrNotFound", 0, id, <<>>)

ErrCorruptedContent(path) == Err("ErrCorruptedContent", 0, 0, path)

\* *fs.PathError of a failed system call (ENOENT, EISDIR, ...) and
\* *strconv.NumError of a failed Atoi
PathError(errno, path) == Err(errno, 0, 0, path)

NumError == Err("NumError", 0, 0, <<>>)

(***************************************************************************)
(* The filesystem: the store directory as a function from entry names to   *)
(* entries, and the path the store was opened with.                        *)
(***************************************************************************)
lockFile == <<".", "l", "o", "c", "k">>

\* A regular file; fd names the thread that still has it open for writing
\* (an entry os.CreateTemp made and its caller has not closed yet), "" if none.
File(data) == [kind |-> "file", data |-> data, fd |-> ""]

OpenFile(t) == [kind |-> "file", data |-> <<>>, fd |-> t]

SubDir == [kind |-> "dir", data |-> <<>>, fd |-> ""]

Exists(fs, name) == name \in DOMAIN fs

\* os.WriteFile / os.Rename target: create or replace one entry
Put(fs, name, entry) ==
    [n \in (DOMAIN fs) \cup {name} |-> IF n = name THEN entry ELSE fs[n]]

\* os.Remove of one entry
Unlink(fs, name) == [n \in (DOMAIN fs) \ {name} |-> fs[n]]

\* filepath.Join(dr.fsPath, name) and filepath.Base(path): a path is the
\* sequence of its elements
Join(path, name) == Append(path, name)

Base(path) == path[Len(path)]

(***************************************************************************)
(* The state.                                                              *)
(***************************************************************************)
VARIABLES
    root,     \* what fsPath names: [kind, name]; never changes
    fs,       \* the entries of the store directory
    handle,   \* per process: the FSDir NewFSDir returned, if any
    pc,       \* per thread: where it is inside an operation
    loc,      \* per thread: the locals of the running operation
    last,     \* history: the operation that returned last, and what it returned
    created,  \* history: per process, the identifiers its handle's Creates returned
    closed,   \* history: per process, whether Close has succeeded on its handle
    sched     \* how calls are scheduled (mode), and how many have started

vars == <<root, fs, handle, pc, loc, last, created, closed, sched>>

\* dr.fsPath, as a path
fsPath == <<root.name>>

(***************************************************************************)
(* Ownership: getOwner and checkOwnedByMe.                                 *)
(***************************************************************************)
\* os.ReadFile of an entry of the directory, or of fsPath itself
ReadFile(path) ==
    IF path = fsPath
    THEN [data |-> <<>>, err |-> PathError("EISDIR", path)]
    ELSE IF ~Exists(fs, Base(path))
    THEN [data |-> <<>>, err |-> PathError("ENOENT", path)]
    ELSE IF fs[Base(path)].kind = "dir"
    THEN [data |-> <<>>, err |-> PathError("EISDIR", path)]
    ELSE [data |-> fs[Base(path)].data, err |-> Nil]

getOwner ==
    LET lockPath == Join(fsPath, lockFile)
        rd       == ReadFile(lockPath)
        n        == Atoi(rd.data)
    IN  IF rd.err # Nil THEN [pid |-> 0, err |-> rd.err]
        ELSE IF ~n.ok THEN [pid |-> 0, err |-> NumError]
        ELSE [pid |-> n.val, err |-> Nil]

\* Mutant: the error carries the caller's own pid instead of the holder's.
checkOwnedByMe_OwnPid(pid) ==
    LET o == getOwner
    IN  IF o.err # Nil THEN o.err
        ELSE IF o.pid # pid THEN ErrDifferentOwner(pid)
        ELSE Nil

\* Mutant: a lock token that cannot be read counts as owned.
checkOwnedByMe_MissingOk(pid) ==
    LET o == getOwner
    IN  IF o.err # Nil THEN Nil
        ELSE IF o.pid # pid THEN ErrDifferentOwner(o.pid)
        ELSE Nil

checkOwnedByMe(pid) ==
    LET o == getOwner
    IN  IF o.err # Nil THEN o.err
        ELSE IF o.pid # pid THEN ErrDifferentOwner(o.pid)
        ELSE Nil

(***************************************************************************)
(* filepath.WalkDir: the callback is called for the root first, then, when *)
(* the root is a directory, for its entries in lexical order; the walk     *)
(* stops at the first error the callback returns.  WalkDir does not follow *)
(* symbolic links, so a root that is a symbolic link is reported as a      *)
(* non-directory and not entered.                                          *)
(***************************************************************************)
CharOrder == <<"+", "-", ".", "0", "1", "2", "3", "4", "5", "6", "7", "8", "9",
               "_", "a", "c", "d", "k", "l", "m", "o", "p", "s", "t", "x">>

Code(c) == CHOOSE i \in 1..Len(CharOrder) : CharOrder[i] = c

RECURSIVE LexLess(_, _)
LexLess(a, b) ==
    IF b = <<>> THEN FALSE
    ELSE IF a = <<>> THEN TRUE
    ELSE IF Head(a) # Head(b) THEN Code(Head(a)) < Code(Head(b))
    ELSE LexLess(Tail(a), Tail(b))

RECURSIVE SortNames(_)
SortNames(S) ==
    IF S = {} THEN <<>>
    ELSE LET m == CHOOSE x \in S : \A y \in S \ {x} : LexLess(x, y)
         IN  <<m>> \o SortNames(S \ {m})

\* The (path, DirEntry) pairs WalkDir hands to the callback, in order.
WalkVisits ==
    LET names == SortNames(DOMAIN fs)
    IN  <<[path |-> fsPath, isDir |-> root.kind = "dir"]>>
        \o (IF root.kind = "dir"
            THEN [i \in 1..Len(names) |->
                    [path |-> Join(fsPath, names[i]),
                     isDir |-> fs[names[i]].kind = "dir"]]
            ELSE <<>>)

\* What both walk callbacks do with an entry before using it (lines 78-91 and
\* 141-154): "corrupted", "skip", or "accept" with the parsed identifier.
ScanEntry(v) ==
    LET fName == Base(v.path)
        n     == Atoi(fName)
    IN  IF v.isDir THEN [what |-> "corrupted", id |-> 0]
        ELSE IF fName = lockFile THEN [what |-> "skip", id |-> 0]
        ELSE IF Head(fName) = "." THEN [what |-> "skip", id |-> 0]
        ELSE IF ~n.ok THEN [what |-> "corrupted", id |-> 0]
        ELSE [what |-> "accept", id |-> n.val]

RECURSIVE WalkLastObjectID(_, _)
WalkLastObjectID(visits, lastObjectID) ==
    IF visits = <<>> THEN [val |-> lastObjectID, err |-> Nil]
    ELSE LET v == Head(visits)
             s == ScanEntry(v)
         IN  IF s.what = "corrupted"
             THEN [val |-> lastObjectID, err |-> ErrCorruptedContent(v.path)]
             ELSE IF s.what = "skip"
             THEN WalkLastObjectID(Tail(visits), lastObjectID)
             ELSE WalkLastObjectID(Tail(visits), Max(s.id, lastObjectID))

getLastObjectID == WalkLastObjectID(WalkVisits, 0)

RECURSIVE WalkLoadAll(_, _)
WalkLoadAll(visits, items) ==
    IF visits = <<>> THEN [val |-> items, err |-> Nil]
    ELSE LET v  == Head(visits)
             s  == ScanEntry(v)
             rd == ReadFile(v.path)
         IN  IF s.what = "corrupted"
             THEN [val |-> items, err |-> ErrCorruptedContent(v.path)]
             ELSE IF s.what = "skip"
             THEN WalkLoadAll(Tail(visits), items)
             ELSE IF rd.err # Nil
             THEN [val |-> items, err |-> ErrCorruptedContent(v.path)]
             ELSE WalkLoadAll(Tail(visits),
                              Append(items, [ID |-> s.id, Blob |-> rd.data]))

LoadAllWalk == WalkLoadAll(WalkVisits, <<>>)

(***************************************************************************)
(* Inputs and initial states.                                              *)
(***************************************************************************)
\* The identifiers and blobs callers pass to Save, Load, Delete and Create.
IDs == {3, -10}

Blobs == {<<>>, <<"b">>}

\* What fsPath can name: the store directory itself, or a symbolic link to
\* it whose own name is plain, dot-prefixed or numeric.
Roots ==
    {[kind |-> "dir", name |-> <<"d">>],
     [kind |-> "symlink", name |-> <<"d">>],
     [kind |-> "symlink", name |-> <<".", "d">>],
     [kind |-> "symlink", name |-> <<"2">>]}

\* A directory holding blobs under the names of ids, plus extra entries.
MkDir(ids, extra) ==
    LET names == {FormatInt(i) : i \in ids}
    IN  [n \in names \cup DOMAIN extra |->
            IF n \in DOMAIN extra THEN extra[n] ELSE File(<<"a">>)]

NoExtra == [n \in {} |-> File(<<>>)]

One(name, entry) == [n \in {name} |-> entry]

\* Directory contents before any lock: empty, the spec's examples {1,2} and
\* {1,3,7}, and one entry of each other kind (reserved, foreign, directory).
InitContents ==
    {MkDir({}, NoExtra),
     MkDir({1, 2}, NoExtra),
     MkDir({1, 3, 7}, NoExtra),
     MkDir({1}, One(<<".", "m">>, File(<<"a">>))),
     MkDir({1}, One(<<"x">>, File(<<"a">>))),
     MkDir({1}, One(<<"s">>, SubDir))}

\* The lock token found at start: none, one written for a pid, or one whose
\* content is not a number.
InitLocks == {NoExtra, One(lockFile, File(<<"x">>))}
             \cup {One(lockFile, File(FormatInt(p))) : p \in Pids}

WithLock(dir, lock) ==
    [n \in DOMAIN dir \cup DOMAIN lock |->
        IF n \in DOMAIN lock THEN lock[n] ELSE dir[n]]

\* earlier is history: the identifiers that the handles the process had
\* before this one gave out.
NoHandle == [exists |-> FALSE, lastObjectID |-> 0, earlier |-> {}]

\* follows, prevID and prevBlob are set on a return from the history the
\* call took along, see Before and BeforeCreate.
NoLast == [t |-> "", op |-> "", id |-> 0, blob |-> <<>>, retID |-> 0,
           retBlob |-> <<>>, retItems |-> <<>>, err |-> Nil,
           follows |-> "", prevID |-> 0, prevBlob |-> <<>>]

\* prev is history, see Before and BeforeCreate.
NoPrev == [op |-> "", id |-> 0, blob |-> <<>>]

NoLoc == [id |-> 0, blob |-> <<>>, tmp |-> <<>>, prev |-> NoPrev]

InitRest ==
    /\ handle = [p \in Pids |-> NoHandle]
    /\ pc = [t \in Threads |-> "idle"]
    /\ loc = [t \in Threads |-> NoLoc]
    /\ last = NoLast
    /\ created = [p \in Pids |-> <<>>]
    /\ closed = [p \in Pids |-> FALSE]

\* Under a root that is a symbolic link the walk never enters the directory,
\* so one valid and one invalid content stand for all of them there.
LinkContents(r) ==
    IF r.name = <<"2">>
    THEN {MkDir({1}, One(<<"x">>, File(<<"a">>)))}
    ELSE {MkDir({1, 3, 7}, NoExtra)}

Init ==
    /\ sched = [mode |-> "serial", calls |-> 0]
    /\ root \in Roots
    /\ \E d \in InitContents, l \in InitLocks :
          /\ root.kind = "symlink" => d \in LinkContents(root)
          /\ fs = WithLock(d, l)
    /\ InitRest

(***************************************************************************)
(* Scheduling.  In mode "serial" calls are serialized: an operation runs   *)
(* to its return before another starts (the component is synchronous and   *)
(* its callers serialize); serialized calls of one process all look alike, *)
(* so one thread of each makes them.  In mode "procs" each process still   *)
(* makes one call at a time, but the processes interleave freely between   *)
(* system calls.  In mode "conc" the threads of a process interleave too.  *)
(* The interleaved modes run MaxCalls calls in all.  Mode "faults" is mode *)
(* "serial" with system calls that may fail for reasons outside the store  *)
(* (no space, no permission, an I/O error); in the other modes they fail   *)
(* only for what the directory holds.  Mode "reopen" is mode "serial" with *)
(* processes that open the store again after closing their handle; in the  *)
(* other modes a process opens it once.  In these two modes one process    *)
(* makes the calls; the other shows only as the holder of the initial      *)
(* lock token.                                                             *)
(***************************************************************************)
SerialThreads == {"t1", "t3"}

SerialModes == {"serial", "faults", "reopen"}

Faulty == sched.mode = "faults"

Start(t) ==
    /\ pc[t] = "idle"
    /\ IF sched.mode \in SerialModes
       THEN /\ t \in IF sched.mode = "serial" THEN SerialThreads ELSE {"t1"}
            /\ \A u \in Threads \ {t} : pc[u] = "idle"
            /\ sched' = sched
       ELSE /\ sched.mode = "procs" => t \in SerialThreads
            /\ sched.calls < MaxCalls
            /\ sched' = [sched EXCEPT !.calls = @ + 1]

Continue(t, label) ==
    /\ pc[t] = label
    /\ sched' = sched

(***************************************************************************)
(* Returning from an operation: the thread is idle again and the history   *)
(* variable last records the call and its results.                         *)
(***************************************************************************)
Return(t, op, id, blob, retID, retBlob, retItems, err) ==
    /\ pc' = [pc EXCEPT ![t] = "idle"]
    /\ loc' = [loc EXCEPT ![t] = NoLoc]
    /\ last' = [t |-> t, op |-> op, id |-> id, blob |-> blob, retID |-> retID,
                retBlob |-> retBlob, retItems |-> retItems, err |-> err,
                follows |-> loc[t].prev.op, prevID |-> loc[t].prev.id,
                prevBlob |-> loc[t].prev.blob]

\* Going on inside an operation.  last holds a return only until the next
\* call starts.
Goto(t, label, l) ==
    /\ pc' = [pc EXCEPT ![t] = label]
    /\ loc' = [loc EXCEPT ![t] = l]
    /\ last' = NoLast

NullID == 0

(***************************************************************************)
(* setMeAsOwner (acquire): CreateTemp, Write and Close, Rename onto the    *)
(* lock name, and the deferred Remove of the temporary name.               *)
(***************************************************************************)
tmpPattern == <<"_", "t", "m", "p", "l", "o", "c", "k">>

\* os.CreateTemp: a name pattern+random that does not exist yet (O_EXCL);
\* when it fails the call returns at once, before the Remove is deferred.
SetMeAsOwner1(t) ==
    /\ Start(t)
    /\ \/ \E r \in 1..MaxTmp :
             LET name == tmpPattern \o FormatInt(r)
             IN  /\ ~Exists(fs, name)
                 /\ fs' = Put(fs, name, OpenFile(t))
                 /\ Goto(t, "acq_write", [loc[t] EXCEPT !.tmp = name])
       \/ /\ Faulty
          /\ fs' = fs
          /\ Return(t, "setMeAsOwner", 0, <<>>, NullID, <<>>, <<>>,
                    PathError("EACCES", Join(fsPath, tmpPattern)))
    /\ UNCHANGED <<root, handle, created, closed>>

\* tmpLock.Write(Itoa(dr.pid)) and tmpLock.Close(): they act on the open
\* file, whatever name it has by now; if its entry was removed meanwhile the
\* write shows nowhere.
\* A failed Write has written some shorter part of the text, a failed Close
\* all of it; both go to the deferred Remove, and nothing is written through
\* the file again, so the entry is shown as no longer open.  In
\* loc[t].id the call keeps which of its steps failed: 0 none, 1 the Rename,
\* 2 the Write, 3 the Close.
SetMeAsOwner2(t) ==
    /\ Continue(t, "acq_write")
    /\ LET mine == {n \in DOMAIN fs : fs[n].fd = t}
           text == FormatInt(Getpid(t))
           Written(data) == IF mine # {}
                            THEN Put(fs, CHOOSE n \in mine : TRUE, File(data))
                            ELSE fs
       IN  \/ /\ fs' = Written(text)
              /\ Goto(t, "acq_rename", loc[t])
           \/ \E k \in 0..(Len(text) - 1) :
                 /\ Faulty
                 /\ fs' = Written(SubSeq(text, 1, k))
                 /\ Goto(t, "acq_defer", [loc[t] EXCEPT !.id = 2])
           \/ /\ Faulty
              /\ fs' = Written(text)
              /\ Goto(t, "acq_defer", [loc[t] EXCEPT !.id = 3])
    /\ UNCHANGED <<root, handle, created, closed>>

\* os.Rename(tmpLock.Name(), lockPath): atomically replaces the lock entry
SetMeAsOwner3(t) ==
    /\ Continue(t, "acq_rename")
    /\ LET name == loc[t].tmp
       IN  IF Exists(fs, name)
           THEN /\ fs' = Put(Unlink(fs, name), lockFile, fs[name])
                /\ Goto(t, "acq_defer", [loc[t] EXCEPT !.id = 0])
           ELSE /\ fs' = fs
                /\ Goto(t, "acq_defer", [loc[t] EXCEPT !.id = 1])
    /\ UNCHANGED <<root, handle, created, closed>>

\* The error setMeAsOwner returns after the step numbered by code failed.
setMeAsOwnerError(code, name) ==
    IF code = 0 THEN Nil
    ELSE PathError(IF code = 1 THEN "ENOENT"
                   ELSE IF code = 2 THEN "ENOSPC" ELSE "EIO",
                   Join(fsPath, name))

\* Mutant: the Remove is not deferred, so a failed call leaves its temporary
\* entry behind.
SetMeAsOwner4_KeepsTemp(t) ==
    /\ Continue(t, "acq_defer")
    /\ fs' = IF loc[t].id = 0 THEN Unlink(fs, loc[t].tmp) ELSE fs
    /\ Return(t, "setMeAsOwner", 0, <<>>, NullID, <<>>, <<>>,
              setMeAsOwnerError(loc[t].id, loc[t].tmp))
    /\ UNCHANGED <<root, handle, created, closed>>

\* defer os.Remove(tmpLock.Name()), then return the error of the step that
\* failed
SetMeAsOwner4(t) ==
    /\ Continue(t, "acq_defer")
    /\ fs' = Unlink(fs, loc[t].tmp)
    /\ Return(t, "setMeAsOwner", 0, <<>>, NullID, <<>>, <<>>,
              setMeAsOwnerError(loc[t].id, loc[t].tmp))
    /\ UNCHANGED <<root, handle, created, closed>>

(***************************************************************************)
(* NewFSDir and Close.                                                     *)
(***************************************************************************)
\* Mutant: NewFSDir claims a store that has no lock token.
NewFSDir1_Claims(t) ==
    /\ Start(t)
    /\ \/ ~handle[Getpid(t)].exists
       \/ sched.mode = "reopen" /\ closed[Getpid(t)]
    /\ \A u \in Threads : Getpid(u) = Getpid(t) => pc[u] # "new_walk"
    /\ IF ~Exists(fs, lockFile)
       THEN /\ fs' = Put(fs, lockFile, File(FormatInt(Getpid(t))))
            /\ Goto(t, "new_walk", loc[t])
       ELSE /\ fs' = fs
            /\ LET err == checkOwnedByMe(Getpid(t))
               IN  IF err # Nil
                   THEN Return(t, "NewFSDir", 0, <<>>, NullID, <<>>, <<>>, err)
                   ELSE Goto(t, "new_walk", loc[t])
    /\ UNCHANGED <<root, handle, created, closed>>

\* The model keeps one handle per process: NewFSDir is called by a process
\* that has none or, in mode "reopen", has closed the one it had, and by one
\* of its threads at a time.
NewFSDir1(t) ==
    /\ Start(t)
    /\ \/ ~handle[Getpid(t)].exists
       \/ sched.mode = "reopen" /\ closed[Getpid(t)]
    /\ \A u \in Threads : Getpid(u) = Getpid(t) => pc[u] # "new_walk"
    /\ LET err == checkOwnedByMe(Getpid(t))
       IN  IF err # Nil
           THEN Return(t, "NewFSDir", 0, <<>>, NullID, <<>>, <<>>, err)
           ELSE Goto(t, "new_walk", loc[t])
    /\ UNCHANGED <<root, fs, handle, created, closed>>

\* Mutant: the counter is seeded with the scan's result as it is.
NewFSDir2_NoFloor(t) ==
    /\ Continue(t, "new_walk")
    /\ LET r == getLastObjectID
           p == Getpid(t)
       IN  /\ IF r.err # Nil
              THEN UNCHANGED <<handle, created, closed>>
              ELSE /\ handle' = [handle EXCEPT ![p] =
                                   [exists |-> TRUE,
                                    lastObjectID |-> r.val,
                                    earlier |-> @.earlier \cup
                                       {created[p][i] : i \in 1..Len(created[p])}]]
                   /\ created' = [created EXCEPT ![p] = <<>>]
                   /\ closed' = [closed EXCEPT ![p] = FALSE]
           /\ Return(t, "NewFSDir", 0, <<>>, NullID, <<>>, <<>>, r.err)
    /\ UNCHANGED <<root, fs>>

\* The new handle takes the place of the closed one the process had, if any.
NewFSDir2(t) ==
    /\ Continue(t, "new_walk")
    /\ LET r == getLastObjectID
           p == Getpid(t)
       IN  /\ IF r.err # Nil
              THEN UNCHANGED <<handle, created, closed>>
              ELSE /\ handle' = [handle EXCEPT ![p] =
                                   [exists |-> TRUE,
                                    lastObjectID |-> Max(r.val, 1),
                                    earlier |-> @.earlier \cup
                                       {created[p][i] : i \in 1..Len(created[p])}]]
                   /\ created' = [created EXCEPT ![p] = <<>>]
                   /\ closed' = [closed EXCEPT ![p] = FALSE]
           /\ Return(t, "NewFSDir", 0, <<>>, NullID, <<>>, <<>>, r.err)
    /\ UNCHANGED <<root, fs>>

\* releaseOwnership: os.Remove(lockPath)
releaseOwnership ==
    IF Exists(fs, lockFile)
    THEN [fs |-> Unlink(fs, lockFile), err |-> Nil]
    ELSE [fs |-> fs, err |-> PathError("ENOENT", Join(fsPath, lockFile))]

\* History for a Close: what the lock token held when the call was made.
Token == IF Exists(fs, lockFile) THEN fs[lockFile].data ELSE <<>>

\* Mutant: Close checks ownership first, as the other operations do.
Close_ChecksHolder(t) ==
    /\ Start(t)
    /\ handle[Getpid(t)].exists
    /\ LET err == checkOwnedByMe(Getpid(t))
           r == IF err # Nil THEN [fs |-> fs, err |-> err] ELSE releaseOwnership
       IN  /\ fs' = r.fs
           /\ closed' = [closed EXCEPT ![Getpid(t)] = @ \/ r.err = Nil]
           /\ Return(t, "Close", 0, Token, NullID, <<>>, <<>>, r.err)
    /\ UNCHANGED <<root, handle, created>>

\* The blob field of a Close's return is history, see Token.
Close(t) ==
    /\ Start(t)
    /\ handle[Getpid(t)].exists
    /\ LET r == releaseOwnership
       IN  /\ fs' = r.fs
           /\ closed' = [closed EXCEPT ![Getpid(t)] = @ \/ r.err = Nil]
           /\ Return(t, "Close", 0, Token, NullID, <<>>, <<>>, r.err)
    /\ UNCHANGED <<root, handle, created>>

(***************************************************************************)
(* Save, and Create on top of it.                                          *)
(***************************************************************************)
\* os.WriteFile(objPath, blob, 0644): creates or truncates and rewrites the
\* entry; fails on a directory.
\* Mutant: the entry is opened without O_TRUNC, so bytes of a longer old
\* content survive behind the new ones.
WriteFile_NoTruncate(name, blob) ==
    IF Exists(fs, name) /\ fs[name].kind = "dir"
    THEN [fs |-> fs, err |-> PathError("EISDIR", Join(fsPath, name))]
    ELSE LET old == IF Exists(fs, name) THEN fs[name].data ELSE <<>>
         IN  [fs |-> Put(fs, name,
                         File(blob \o SubSeq(old, Len(blob) + 1, Len(old)))),
              err |-> Nil]

WriteFile(name, blob) ==
    IF Exists(fs, name) /\ fs[name].kind = "dir"
    THEN [fs |-> fs, err |-> PathError("EISDIR", Join(fsPath, name))]
    ELSE [fs |-> Put(fs, name, File(blob)), err |-> Nil]

\* The ways os.WriteFile can end: done; refused at the open, nothing changed;
\* or failed at the write, after the open has created or truncated the entry.
WriteFileOutcomes(name, blob) ==
    LET path == Join(fsPath, name)
    IN  IF ~Faulty \/ (Exists(fs, name) /\ fs[name].kind = "dir")
        THEN {WriteFile(name, blob)}
        ELSE {WriteFile(name, blob),
              [fs |-> fs, err |-> PathError("EACCES", path)],
              [fs |-> Put(fs, name, File(<<>>)), err |-> PathError("ENOSPC", path)]}

Save1(t, id, blob) ==
    /\ Start(t)
    /\ handle[Getpid(t)].exists
    /\ LET err == checkOwnedByMe(Getpid(t))
       IN  IF err # Nil
           THEN Return(t, "Save", id, blob, NullID, <<>>, <<>>, err)
           ELSE Goto(t, "save_write", [loc[t] EXCEPT !.id = id, !.blob = blob])
    /\ UNCHANGED <<root, fs, handle, created, closed>>

Save2(t) ==
    /\ Continue(t, "save_write")
    /\ \E r \in WriteFileOutcomes(FormatInt(loc[t].id), loc[t].blob) :
          /\ fs' = r.fs
          /\ Return(t, "Save", loc[t].id, loc[t].blob, NullID, <<>>, <<>>, r.err)
    /\ UNCHANGED <<root, handle, created, closed>>

\* History for a Create: the call that returned just before it, when that was
\* a failed Create of the same process, and the identifier that one was
\* about to give out.
BeforeCreate(t) ==
    IF /\ last.op = "Create"
       /\ last.err # Nil
       /\ Getpid(last.t) = Getpid(t)
    THEN [op |-> "Create", id |-> last.id, blob |-> <<>>]
    ELSE NoPrev

\* Create: checkOwnedByMe, then objectID := dr.lastObjectID + 1.  The id
\* field of a Create's return is history: the identifier the call was about
\* to give out.
Create1(t, data) ==
    /\ Start(t)
    /\ handle[Getpid(t)].exists
    /\ handle[Getpid(t)].lastObjectID < MaxID
    /\ LET err == checkOwnedByMe(Getpid(t))
       IN  IF err # Nil
           THEN Return(t, "Create", handle[Getpid(t)].lastObjectID + 1, data,
                       0, <<>>, <<>>, err)
           ELSE Goto(t, "create_save",
                     [loc[t] EXCEPT !.id = handle[Getpid(t)].lastObjectID + 1,
                                    !.blob = data,
                                    !.prev = BeforeCreate(t)])
    /\ UNCHANGED <<root, fs, handle, created, closed>>

\* dr.Save(objectID, data): its own ownership check ...
Create2(t) ==
    /\ Continue(t, "create_save")
    /\ LET err == checkOwnedByMe(Getpid(t))
       IN  IF err # Nil
           THEN Return(t, "Create", loc[t].id, loc[t].blob, NullID, <<>>, <<>>, err)
           ELSE Goto(t, "create_write", loc[t])
    /\ UNCHANGED <<root, fs, handle, created, closed>>

\* Mutant: the counter is advanced before the write, and stays advanced when
\* the write fails.
Create3_CountsFailure(t) ==
    /\ Continue(t, "create_write")
    /\ handle' = [handle EXCEPT ![Getpid(t)].lastObjectID = loc[t].id]
    /\ \E r \in WriteFileOutcomes(FormatInt(loc[t].id), loc[t].blob) :
          /\ fs' = r.fs
          /\ IF r.err # Nil
             THEN Return(t, "Create", loc[t].id, loc[t].blob, NullID, <<>>, <<>>, r.err)
             ELSE Goto(t, "create_commit", loc[t])
    /\ UNCHANGED <<root, created, closed>>

\* ... and its write
Create3(t) ==
    /\ Continue(t, "create_write")
    /\ \E r \in WriteFileOutcomes(FormatInt(loc[t].id), loc[t].blob) :
          /\ fs' = r.fs
          /\ IF r.err # Nil
             THEN Return(t, "Create", loc[t].id, loc[t].blob, NullID, <<>>, <<>>, r.err)
             ELSE Goto(t, "create_commit", loc[t])
    /\ UNCHANGED <<root, handle, created, closed>>

\* Mutant: the commit counts on from the counter as it is by then.
Create4_Recount(t) ==
    /\ Continue(t, "create_commit")
    /\ handle' = [handle EXCEPT ![Getpid(t)].lastObjectID = @ + 1]
    /\ created' = [created EXCEPT ![Getpid(t)] =
                      Append(@, handle[Getpid(t)].lastObjectID + 1)]
    /\ Return(t, "Create", loc[t].id, loc[t].blob,
              handle[Getpid(t)].lastObjectID + 1, <<>>, <<>>, Nil)
    /\ UNCHANGED <<root, fs, closed>>

\* Mutant: the counter is not advanced.
Create4_NoAdvance(t) ==
    /\ Continue(t, "create_commit")
    /\ handle' = handle
    /\ created' = [created EXCEPT ![Getpid(t)] = Append(@, loc[t].id)]
    /\ Return(t, "Create", loc[t].id, loc[t].blob, loc[t].id, <<>>, <<>>, Nil)
    /\ UNCHANGED <<root, fs, closed>>

\* dr.lastObjectID = objectID; return dr.lastObjectID, nil
Create4(t) ==
    /\ Continue(t, "create_commit")
    /\ handle' = [handle EXCEPT ![Getpid(t)].lastObjectID = loc[t].id]
    /\ created' = [created EXCEPT ![Getpid(t)] = Append(@, loc[t].id)]
    /\ Return(t, "Create", loc[t].id, loc[t].blob, loc[t].id, <<>>, <<>>, Nil)
    /\ UNCHANGED <<root, fs, closed>>

(***************************************************************************)
(* Delete, Load and LoadAll.                                               *)
(***************************************************************************)
Delete1(t, id) ==
    /\ Start(t)
    /\ handle[Getpid(t)].exists
    /\ LET err == checkOwnedByMe(Getpid(t))
       IN  IF err # Nil
           THEN Return(t, "Delete", id, <<>>, NullID, <<>>, <<>>, err)
           ELSE Goto(t, "delete_remove", [loc[t] EXCEPT !.id = id])
    /\ UNCHANGED <<root, fs, handle, created, closed>>

\* os.Remove(objPath)
Delete2(t) ==
    /\ Continue(t, "delete_remove")
    /\ LET name == FormatInt(loc[t].id)
       IN  IF Exists(fs, name)
           THEN /\ fs' = Unlink(fs, name)
                /\ Return(t, "Delete", loc[t].id, <<>>, NullID, <<>>, <<>>, Nil)
           ELSE /\ fs' = fs
                /\ Return(t, "Delete", loc[t].id, <<>>, NullID, <<>>, <<>>,
                          PathError("ENOENT", Join(fsPath, name)))
    /\ UNCHANGED <<root, handle, created, closed>>

\* History for a Load: the call that returned just before it, when that was
\* a successful Save or Delete of the same identifier by the same process.
Before(t, id) ==
    IF /\ last.op \in {"Save", "Delete"}
       /\ last.err = Nil
       /\ last.id = id
       /\ last.t # ""
       /\ Getpid(last.t) = Getpid(t)
    THEN [op |-> last.op, id |-> id, blob |-> last.blob]
    ELSE NoPrev

Load1(t, id) ==
    /\ Start(t)
    /\ handle[Getpid(t)].exists
    /\ LET err == checkOwnedByMe(Getpid(t))
       IN  IF err # Nil
           THEN Return(t, "Load", id, <<>>, NullID, <<>>, <<>>, err)
           ELSE Goto(t, "load_read", [loc[t] EXCEPT !.id = id, !.prev = Before(t, id)])
    /\ UNCHANGED <<root, fs, handle, created, closed>>

\* Mutant: the missing entry's error is passed on as it is.
LoadResult_Raw(id) == ReadFile(Join(fsPath, FormatInt(id)))

\* os.ReadFile(objPath); a missing entry becomes ErrNotFound{ID: id}
LoadResult(id) ==
    LET rd == ReadFile(Join(fsPath, FormatInt(id)))
    IN  IF rd.err.kind = "ENOENT"
        THEN [data |-> <<>>, err |-> ErrNotFound(id)]
        ELSE rd

Load2(t) ==
    /\ Continue(t, "load_read")
    /\ LET r == LoadResult(loc[t].id)
       IN  Return(t, "Load", loc[t].id, <<>>, NullID, r.data, <<>>, r.err)
    /\ UNCHANGED <<root, fs, handle, created, closed>>

LoadAll1(t) ==
    /\ Start(t)
    /\ handle[Getpid(t)].exists
    /\ LET err == checkOwnedByMe(Getpid(t))
       IN  IF err # Nil
           THEN Return(t, "LoadAll", 0, <<>>, NullID, <<>>, <<>>, err)
           ELSE Goto(t, "loadall_walk", loc[t])
    /\ UNCHANGED <<root, fs, handle, created, closed>>

LoadAll2(t) ==
    /\ Continue(t, "loadall_walk")
    /\ LET r == LoadAllWalk
       IN  Return(t, "LoadAll", 0, <<>>, NullID, <<>>, r.val, r.err)
    /\ UNCHANGED <<root, fs, handle, created, closed>>

(***************************************************************************)
(* Specifications: Spec with serialized calls, from every initial          *)
(* directory; SpecProcs with interleaved processes; SpecConc with          *)
(* interleaved threads as well.                                            *)
(***************************************************************************)
Step(t) ==
    \/ SetMeAsOwner1(t) \/ SetMeAsOwner2(t) \/ SetMeAsOwner3(t) \/ SetMeAsOwner4(t)
    \/ NewFSDir1(t) \/ NewFSDir2(t)
    \/ Close(t)
    \/ \E id \in IDs, blob \in Blobs : Save1(t, id, blob)
    \/ Save2(t)
    \/ \E data \in Blobs : Create1(t, data)
    \/ Create2(t) \/ Create3(t) \/ Create4(t)
    \/ \E id \in IDs : Delete1(t, id)
    \/ Delete2(t)
    \/ \E id \in IDs : Load1(t, id)
    \/ Load2(t)
    \/ LoadAll1(t) \/ LoadAll2(t)

Next == \E t \in Threads : Step(t)

Spec == Init /\ [][Next]_vars

\* The interleavings are explored from an empty store, unclaimed or claimed.
InitInterleaved ==
    /\ root \in {r \in Roots : r.name = <<".", "d">>}
    /\ fs \in {NoExtra, One(lockFile, File(FormatInt(3)))}
    /\ InitRest

InitProcs == sched = [mode |-> "procs", calls |-> 0] /\ InitInterleaved

\* Failing system calls and reopening are explored from one store that can
\* be opened.
InitOpenable ==
    /\ root \in {r \in Roots : r.name = <<".", "d">>}
    /\ fs \in {WithLock(MkDir({1}, NoExtra), l) : l \in InitLocks}
    /\ InitRest

InitFaults == sched = [mode |-> "faults", calls |-> 0] /\ InitOpenable

SpecFaults == InitFaults /\ [][Next]_vars

InitReopen == sched = [mode |-> "reopen", calls |-> 0] /\ InitOpenable

SpecReopen == InitReopen /\ [][Next]_vars

SpecProcs == InitProcs /\ [][Next]_vars

InitConc == sched = [mode |-> "conc", calls |-> 0] /\ InitInterleaved

SpecConc == InitConc /\ [][Next]_vars

(***************************************************************************)
(* What the claims speak of, stated on the directory itself.               *)
(***************************************************************************)
\* The lock token names process pid.
LockNames(pid) ==
    /\ Exists(fs, lockFile)
    /\ fs[lockFile].kind = "file"
    /\ Atoi(fs[lockFile].data) = [ok |-> TRUE, val |-> pid]

AllDigits(name) == name # <<>> /\ \A i \in 1..Len(name) : IsDigit(name[i])

\* The names of the blob entries: regular files named by decimal digits.
NumericNames == {n \in DOMAIN fs : AllDigits(n) /\ fs[n].kind = "file"}

\* The entries that are neither the lock token, nor dot-prefixed, nor
\* regular files named by decimal digits.
BadNames ==
    {n \in DOMAIN fs : n # lockFile /\ Head(n) # "." /\ n \notin NumericNames}

DirValid == BadNames = {}

MaxNumeric ==
    IF NumericNames = {} THEN 0
    ELSE CHOOSE m \in {Atoi(n).val : n \in NumericNames} :
            \A k \in {Atoi(n).val : n \in NumericNames} : k <= m

CrudOps == {"Create", "Load", "LoadAll", "Save", "Delete"}

Caller == Getpid(last.t)

(***************************************************************************)
(* C1.  Single-writer exclusivity: whenever a step of Create, Save or      *)
(* Delete writes or removes a blob entry, the lock token names the process *)
(* taking that step.                                                       *)
(***************************************************************************)
C1_WriterHoldsLock ==
    [][\A t \in Threads :
          (/\ pc[t] \in {"save_write", "create_write", "delete_remove"}
           /\ pc'[t] # pc[t]
           /\ fs' # fs)
          => LockNames(Getpid(t))]_vars

(***************************************************************************)
(* C2.  The identifiers returned by the successful Creates of one handle,  *)
(* calls serialized, are strictly increasing (so none is returned twice).  *)
(***************************************************************************)
C2_CreatedIncreasing ==
    \A p \in Pids :
        \A i, j \in 1..Len(created[p]) : i < j => created[p][i] < created[p][j]

\* A handle whose Creates have returned twice, with a Delete just returned.
C2_Witness ==
    /\ last.op = "Delete"
    /\ last.err = Nil
    /\ Len(created[Caller]) >= 2

(***************************************************************************)
(* C3.  NewFSDir called by the lock holder on a valid directory whose      *)
(* numeric entries have maximum M succeeds and seeds the counter to        *)
(* max(M, 1).                                                              *)
(***************************************************************************)
C3_OpenSeedsCounter ==
    (/\ last.op = "NewFSDir"
     /\ root.kind = "dir"
     /\ DirValid
     /\ LockNames(Caller))
    => /\ last.err = Nil
       /\ handle[Caller].exists
       /\ handle[Caller].lastObjectID = Max(MaxNumeric, 1)

(***************************************************************************)
(* C4.  NewFSDir on a directory whose lock token names another process     *)
(* fails with ErrDifferentOwner carrying that process's identifier,        *)
(* returns no handle and leaves every directory entry unchanged.           *)
(***************************************************************************)
C4_ForeignLockRefused ==
    [][\A t \in Threads : \A q \in Pids \ {Getpid(t)} :
          (/\ pc[t] = "idle"
           /\ pc'[t] = "idle"
           /\ last'.op = "NewFSDir"
           /\ last'.t = t
           /\ LockNames(q))
          => /\ last'.err = ErrDifferentOwner(q)
             /\ fs' = fs
             /\ handle' = handle
             /\ ~handle'[Getpid(t)].exists]_vars

\* NewFSDir has just been refused because of another process's lock token,
\* in a directory that holds blobs.
C4_Witness ==
    /\ last.op = "NewFSDir"
    /\ last.err.kind = "ErrDifferentOwner"
    /\ last.err.pid # Caller
    /\ NumericNames # {}

(***************************************************************************)
(* C5.  Round trip: a Load that passes its ownership check immediately     *)
(* after a successful Save of the same identifier on the same handle       *)
(* returns exactly the saved blob and no error.                            *)
(***************************************************************************)
C5_SaveLoadRoundTrip ==
    (last.op = "Load" /\ last.follows = "Save")
    => (last.err = Nil /\ last.retBlob = last.prevBlob)

\* The empty blob, saved over an entry that held data, has been loaded back.
C5_Witness ==
    /\ last.op = "Load"
    /\ last.follows = "Save"
    /\ last.prevBlob = <<>>
    /\ last.id = 3
    /\ root.name = <<".", "d">>
    /\ Exists(fs, <<"7">>)

(***************************************************************************)
(* C6.  A Load that passes its ownership check immediately after a         *)
(* successful Delete of the same identifier on the same handle fails with  *)
(* ErrNotFound carrying that identifier.                                   *)
(***************************************************************************)
C6_DeleteThenLoadNotFound ==
    (last.op = "Load" /\ last.follows = "Delete")
    => last.err = ErrNotFound(last.id)

C6_Witness ==
    /\ last.op = "Load"
    /\ last.follows = "Delete"
    /\ last.id = -10

(***************************************************************************)
(* C7.  LoadAll by the lock holder on a valid directory returns no error   *)
(* and exactly one Item per numeric-named file, with its identifier and    *)
(* bytes.                                                                  *)
(***************************************************************************)
ExpectedItems == {[ID |-> Atoi(n).val, Blob |-> fs[n].data] : n \in NumericNames}

C7_LoadAllReturnsAll ==
    (/\ last.op = "LoadAll"
     /\ DirValid
     /\ LockNames(Caller))
    => /\ last.err = Nil
       /\ {last.retItems[i] : i \in 1..Len(last.retItems)} = ExpectedItems
       /\ Len(last.retItems) = Cardinality(NumericNames)

(***************************************************************************)
(* C8.  LoadAll by the lock holder on a directory with one entry that is   *)
(* neither numeric, nor the lock token, nor dot-prefixed fails with        *)
(* ErrCorruptedContent naming the path of that entry.                      *)
(***************************************************************************)
C8_LoadAllNamesBadEntry ==
    (/\ last.op = "LoadAll"
     /\ LockNames(Caller)
     /\ Cardinality(BadNames) = 1)
    => \E b \in BadNames : last.err = ErrCorruptedContent(Join(fsPath, b))

(***************************************************************************)
(* C9.  After Close has succeeded on a handle, every later Create, Load,   *)
(* LoadAll, Save and Delete on that handle fails.                          *)
(***************************************************************************)
C9_ClosedHandleFails ==
    (last.op \in CrudOps /\ closed[Caller]) => last.err # Nil

(***************************************************************************)
(* C10.  Each of Create, Load, LoadAll, Save and Delete (and the Save      *)
(* inside Create) checks ownership first: when the lock token does not     *)
(* name the caller, the step returns an ownership error and changes        *)
(* neither the directory nor the handle.                                   *)
(***************************************************************************)
OwnershipErrors ==
    {"ErrDifferentOwner", "ENOENT", "EISDIR", "NumError"}

\* Thread t takes the step of a CRUD operation that checks ownership.
CheckStep(t) ==
    \/ /\ pc[t] = "idle"
       /\ pc'[t] \in {"save_write", "create_save", "delete_remove",
                      "load_read", "loadall_walk"}
    \/ /\ pc[t] = "idle"
       /\ pc'[t] = "idle"
       /\ last' # last
       /\ last'.t = t
       /\ last'.op \in CrudOps
    \/ /\ pc[t] = "create_save"
       /\ pc'[t] # "create_save"

C10_OwnershipCheckedFirst ==
    [][\A t \in Threads :
          (CheckStep(t) /\ ~LockNames(Getpid(t)))
          => /\ pc'[t] = "idle"
             /\ last'.t = t
             /\ last'.op \in CrudOps
             /\ last'.err.kind \in OwnershipErrors
             /\ \A q \in Pids : LockNames(q) => last'.err = ErrDifferentOwner(q)
             /\ fs' = fs
             /\ handle' = handle]_vars

\* A Create has just been refused: the lock token is gone or unreadable.
C10_Witness ==
    /\ last.op = "Create"
    /\ last.err.kind \in {"ENOENT", "NumError"}
    /\ handle[Caller].exists

(***************************************************************************)
(* C11.  A Create that fails, at an ownership check or at the write of the *)
(* blob, returns the null identifier with its error and leaves the         *)
(* handle's counter as it was; the successful Create that follows it on    *)
(* the handle returns the identifier the failed call was about to give     *)
(* out.                                                                    *)
(***************************************************************************)
C11_FailedCreateKeepsCounter ==
    /\ (last.op = "Create" /\ last.err # Nil)
       => /\ last.retID = NullID
          /\ handle[Caller].lastObjectID + 1 = last.id
    /\ (last.op = "Create" /\ last.err = Nil /\ last.follows = "Create")
       => last.retID = last.prevID

\* A Create has succeeded right after one that failed at its write, on a
\* handle that had given out an identifier before.
C11_Witness ==
    /\ last.op = "Create"
    /\ last.err = Nil
    /\ last.follows = "Create"
    /\ Len(created[Caller]) = 2
    /\ last.blob # <<>>
    /\ fs[FormatInt(last.retID)].data = last.blob

(***************************************************************************)
(* C12.  Within one process, an identifier returned by a successful Create *)
(* is not returned again by a later successful Create of that process on   *)
(* the same directory: neither by the same handle nor by a handle the      *)
(* process opens later.                                                    *)
(***************************************************************************)
C12_NeverReturnedAgain ==
    \A p \in Pids :
        /\ \A i \in 1..Len(created[p]) : created[p][i] \notin handle[p].earlier
        /\ \A i, j \in 1..Len(created[p]) :
              i # j => created[p][i] # created[p][j]

(***************************************************************************)
(* C13.  Whatever processes run setMeAsOwner and however their steps       *)
(* interleave, the lock token, when there is one, holds the complete pid   *)
(* of a process: the token that was there before or a new one fully        *)
(* written, never an empty or partly written one.                          *)
(***************************************************************************)
C13_TokenNeverPartial ==
    Exists(fs, lockFile) => fs[lockFile].data \in {FormatInt(p) : p \in Pids}

(***************************************************************************)
(* C14.  The directory invariant: in a store that started valid, after     *)
(* every step of every operation each entry is the lock token, or          *)
(* dot-prefixed, or a regular file whose name the scan reads as an         *)
(* identifier; no entry would make a scan report corrupted content.        *)
(***************************************************************************)
\* The entries outside the invariant that Init may put in a store; no
\* operation creates or removes an entry of these names.
InitJunk == {<<"x">>, <<"s">>}

StartedValid == \A n \in DOMAIN fs : n \notin InitJunk

EntryValid(n) ==
    \/ n = lockFile
    \/ Head(n) = "."
    \/ fs[n].kind = "file" /\ Atoi(n).ok

C14_DirectoryInvariant ==
    StartedValid => \A n \in DOMAIN fs : EntryValid(n)

(***************************************************************************)
(* C15.  Close removes the lock token without checking who holds it: a     *)
(* Close made while the token names another process succeeds and deletes   *)
(* the token, and after it the ownership check of every process, the       *)
(* holder's too, fails.                                                    *)
(***************************************************************************)
\* The Close that has just returned was made while the token named q.
ClosedOver(q) ==
    /\ last.op = "Close"
    /\ q # Caller
    /\ Atoi(last.blob) = [ok |-> TRUE, val |-> q]

C15_CloseRemovesForeignToken ==
    \A q \in Pids :
        ClosedOver(q)
        => /\ last.err = Nil
           /\ ~Exists(fs, lockFile)
           /\ \A p \in Pids : checkOwnedByMe(p).kind = "ENOENT"

\* A Close has removed the token of another process that has an open handle.
C15_Witness ==
    \E q \in Pids :
        /\ ClosedOver(q)
        /\ handle[q].exists
        /\ ~closed[q]
        /\ ~Exists(fs, lockFile)

(***************************************************************************)
(* C16.  NewFSDir never creates or rewrites the lock token: no step of it  *)
(* changes the directory; called on a store with no lock token it fails    *)
(* at once with the error of the missing token and returns no handle.      *)
(***************************************************************************)
\* Thread t takes a step of NewFSDir.
NewFSDirStep(t) ==
    \/ pc[t] = "idle" /\ pc'[t] = "new_walk"
    \/ pc[t] = "new_walk" /\ pc'[t] # "new_walk"
    \/ /\ pc[t] = "idle"
       /\ pc'[t] = "idle"
       /\ last' # last
       /\ last'.t = t
       /\ last'.op = "NewFSDir"

C16_NewFSDirNeverClaims ==
    [][\A t \in Threads :
          NewFSDirStep(t)
          => /\ fs' = fs
             /\ ~Exists(fs, lockFile)
                => /\ pc'[t] = "idle"
                   /\ last'.err = PathError("ENOENT", Join(fsPath, lockFile))
                   /\ handle' = handle
                   /\ ~handle'[Getpid(t)].exists]_vars

\* NewFSDir has just failed on a store that holds blobs and no lock token,
\* under a path that a lock holder can open.
C16_Witness ==
    /\ last.op = "NewFSDir"
    /\ last.err.kind = "ENOENT"
    /\ ~Exists(fs, lockFile)
    /\ ~handle[Caller].exists
    /\ NumericNames # {}
    /\ root.name = <<".", "d">>

(***************************************************************************)
(* C17.  The counter of an open handle, calls serialized: it is at least 1 *)
(* from the moment the handle exists; the step that commits a successful   *)
(* Create raises it by exactly one, to the identifier returned; every      *)
(* other step, of Load, LoadAll, Save, Delete, Close, setMeAsOwner and of  *)
(* any operation that fails, leaves it as it is.                           *)
(***************************************************************************)
\* A thread of process p takes the step that commits a Create.
CreateCommits(p) ==
    \E t \in Threads :
        /\ Getpid(t) = p
        /\ pc[t] = "create_commit"
        /\ pc'[t] = "idle"

NoEntry == [kind |-> "none", data |-> <<>>, fd |-> ""]

\* The lock entry of directory f.
LockOf(f) == IF lockFile \in DOMAIN f THEN f[lockFile] ELSE NoEntry

C18_FailedAcquireLeavesNothing ==
    [][\A t \in Threads :
          /\ (\/ pc[t] = "idle" /\ pc'[t] = "acq_write"
              \/ pc[t] = "acq_write" /\ pc'[t] = "acq_defer")
             => LockOf(fs') = LockOf(fs)
          /\ (/\ pc[t] = "idle"
              /\ pc'[t] = "idle"
              /\ last' # last
              /\ last'.t = t
              /\ last'.op = "setMeAsOwner")
             => /\ fs' = fs
                /\ last'.err # Nil
          /\ (pc[t] = "acq_defer" /\ pc'[t] = "idle" /\ loc[t].id \in {2, 3})
             => /\ LockOf(fs') = LockOf(fs)
                /\ ~Exists(fs', loc[t].tmp)
                /\ last'.err # Nil]_vars

\* A setMeAsOwner has just failed at its Write in a store whose token names
\* another process: the token is as it was and no temporary entry is left.
C18_Witness ==
    /\ last.op = "setMeAsOwner"
    /\ last.err.kind = "ENOSPC"
    /\ LockNames(12)
    /\ Caller = 3
    /\ \A n \in DOMAIN fs : n = lockFile \/ n \in NumericNames

(***************************************************************************)
(* C19.  The counter update of Create is not atomic.  A Create writes its  *)
(* blob under, then sets the counter to and returns, the identifier it     *)
(* computed from the counter it read at its start, whatever other Creates  *)
(* on the handle wrote or committed in between; so two Creates whose steps *)
(* overlap can return the same identifier, the blob written second         *)
(* replacing the first (the witness).                                      *)
(***************************************************************************)
C19_StaleCounterCommitted ==
    [][\A t \in Threads :
          /\ (pc[t] = "create_write" /\ pc'[t] = "create_commit")
             => fs'[FormatInt(loc[t].id)] = File(loc[t].blob)
          /\ (pc[t] = "create_commit" /\ pc'[t] = "idle")
             => /\ handle'[Getpid(t)].lastObjectID = loc[t].id
                /\ last'.err = Nil
                /\ last'.retID = loc[t].id]_vars

\* Two Creates of one handle have returned the same identifier, and the
\* entry does not hold the blob of the one that returned last: the other
\* wrote after it.
C19_Witness ==
    \E p \in Pids :
        /\ Len(created[p]) = 2
        /\ created[p][1] = created[p][2]
        /\ last.op = "Create"
        /\ last.err = Nil
        /\ Getpid(last.t) = p
        /\ fs[FormatInt(last.retID)].data # last.blob

(***************************************************************************)
(* C20.  A successful Create never overwrites stored data: with calls      *)
(* serialized, the write step of a Create that succeeds makes a new entry; *)
(* no entry of its identifier's name was there before.                     *)
(***************************************************************************)
C20_CreateNeverOverwrites ==
    [][\A t \in Threads :
          (pc[t] = "create_write" /\ pc'[t] = "create_commit")
          => ~Exists(fs, FormatInt(loc[t].id))]_vars

====
